---- MODULE Spec2Model ----
(***************************************************************************)
(* Model of the items app of hoangtuananh97/large-items:                   *)
(*   views.py  start_task_idempotency, start_task_lock                     *)
(*   tasks.py  process_items_idempotency, process_items_lock               *)
(* The shared stores (Django cache, Redis) and the Celery job store are    *)
(* state; every store call of a handler is one atomic step, so concurrent  *)
(* requests and workers interleave between store calls.                    *)
(***************************************************************************)
EXTENDS Integers, Sequences, FiniteSets, TLC

\* ---- bounds of the model ------------------------------------------------
MaxReq == 2        \* HTTP submissions handled (possibly concurrently)
MaxJobs == 2       \* jobs the Celery job store holds
MaxUser == 1       \* user_id ranges over 0..MaxUser (0: missing / falsy)
MaxItems == 2      \* longest items list of a payload
TickStep == 150    \* seconds that pass in one Tick

\* ---- program constants --------------------------------------------------
IDEMPOTENCY_TIMEOUT == 300
LOCK_TIMEOUT == 600
NoExpiry == -1     \* TTL of a redis key that has no expiry (redis TTL -1)

Reqs == 1..MaxReq
UserIds == 0..MaxUser
Items(n) == [i \in 1..n |-> i]
ItemLists == {Items(n) : n \in 0..MaxItems}

\* ---- keys ---------------------------------------------------------------
\* hashlib.sha256(f'{user_id}'.encode()).hexdigest(): the digest of the
\* decimal text of user_id; collision-free on the modelled inputs.
sha256(s) == <<"sha256", s>>
hashing(user_id) == sha256(ToString(user_id))
lock_key(h) == <<"user", h, "lock">>
Hashings == {hashing(u) : u \in UserIds \ {0}}

\* ---- key-value store primitives (dict with per-key TTL) -------------------
\* A store is a function whose DOMAIN is the set of keys present.
Remove(store, k) == [x \in DOMAIN store \ {k} |-> store[x]]
Put(store, k, rec) == [x \in DOMAIN store \cup {k} |-> IF x = k THEN rec ELSE store[x]]

\* A lookup that misses although the key is present (looking up another key)
cache_get_miss(c, k) == ""
\* cache.get(key): the stored value, or None (modelled "") when absent
cache_get(c, k) == IF k \in DOMAIN c THEN c[k].value ELSE ""
\* cache.set(key, value, timeout): writes value and (re)starts the TTL.
\* `writers` is a history field: the requests that wrote the key since it
\* last became present.
cache_set(c, k, v, timeout, who) ==
    Put(c, k, [value |-> v, ttl |-> timeout,
               writers |-> IF k \in DOMAIN c THEN c[k].writers \cup {who} ELSE {who}])
\* cache.delete(key)
cache_delete(c, k) == Remove(c, k)

\* redis_client.exists(key)
redis_exists(rd, k) == k \in DOMAIN rd
\* redis_client.setnx(key, value): TRUE iff the key was created. A key made by
\* SETNX has no expiry. `by` is a history field (who created the key).
redis_setnx_ok(rd, k) == k \notin DOMAIN rd
redis_setnx(rd, k, v, who) ==
    IF k \in DOMAIN rd THEN rd
    ELSE Put(rd, k, [value |-> v, ttl |-> NoExpiry, by |-> who])
\* redis_client.expire(key, seconds): sets the TTL of an existing key
redis_expire(rd, k, seconds) ==
    IF k \in DOMAIN rd THEN [rd EXCEPT ![k].ttl = seconds] ELSE rd
\* redis_client.delete(key)
redis_delete(rd, k) == Remove(rd, k)

\* Passage of TickStep seconds: keys whose TTL runs out disappear.
Expired(rec) == rec.ttl # NoExpiry /\ rec.ttl <= TickStep
Age(store) ==
    [k \in {x \in DOMAIN store : ~Expired(store[x])} |->
        IF store[k].ttl = NoExpiry THEN store[k]
        ELSE [store[k] EXCEPT !.ttl = @ - TickStep]]

VARIABLES cache, redis, req, jobs, poll
vars == <<cache, redis, req, jobs, poll>>

\* ---- HTTP requests ------------------------------------------------------
IdleReq == [pc |-> "idle", view |-> "", user_id |-> 0, items |-> <<>>,
            status |-> 0, message |-> "", task_id |-> 0, ops |-> 0,
            is_locked |-> FALSE]

\* JsonResponse(..., status=...) : the handler returns
Respond(r, st, msg, tid) ==
    [r EXCEPT !.pc = "done", !.status = st, !.message = msg, !.task_id = tid]

\* ---- Celery jobs --------------------------------------------------------
NoResult == [message |-> "", total_items |-> -1, status |-> ""]
NewJob(task, args) ==
    [task |-> task, args |-> args, pc |-> "queued", state |-> "PENDING",
     current |-> 0, total |-> 0, exc |-> FALSE, result |-> NoResult]

\* Number of positional parameters of the task function besides self
Arity(task) == 2    \* (self, items, idempotency_key) / (self, items, hashing)

\* ---- status requests ------------------------------------------------------
\* One status request at a time is followed: what it asked, what it read
\* (state, lock) and what it answered.
NoDetails == [message |-> "", total_items |-> -1, status |-> "",
              current |-> -1, total |-> -1]
IdlePoll == [pc |-> "idle", view |-> "", task_id |-> 0, hashing |-> <<>>,
             state |-> "", lock |-> FALSE, http |-> 0, status |-> "",
             details |-> NoDetails]

Init ==
    /\ cache = <<>>
    /\ redis = <<>>
    /\ req = [r \in Reqs |-> IdleReq]
    /\ jobs = <<>>
    /\ poll = IdlePoll

\* ---- views.py: start_task_idempotency ----------------------------------
\* Lines 63-73: parse the body, validate user_id, derive the key, cache.get.
\* `items` is part of the posted body but the view never reads it.
IdemStart(r, user_id, items) ==
    /\ req[r].pc = "idle"
    /\ \A q \in Reqs : q < r => req[q].pc # "idle"
    /\ LET rq == [req[r] EXCEPT !.view = "idempotency", !.user_id = user_id,
                                !.items = items]
           idempotency_key == hashing(user_id)
       IN  req' = [req EXCEPT ![r] =
               IF user_id = 0
               THEN Respond(rq, 400, "No user provided", 0)
               ELSE IF cache_get(cache, idempotency_key) # ""
               THEN Respond([rq EXCEPT !.ops = 1], 200, "Your task already processed", 0)
               ELSE [rq EXCEPT !.pc = "idem_set", !.ops = 1]]
    /\ UNCHANGED <<cache, redis, jobs, poll>>

\* Line 75: cache.set(idempotency_key, 'processed', timeout=300)
IdemSet(r) ==
    /\ req[r].pc = "idem_set"
    /\ cache' = cache_set(cache, hashing(req[r].user_id), "processed",
                        IDEMPOTENCY_TIMEOUT, r)
    /\ req' = [req EXCEPT ![r].pc = "idem_enqueue", ![r].ops = @ + 1]
    /\ UNCHANGED <<redis, jobs, poll>>

\* Lines 78-81: process_items_idempotency.apply_async(args=[idempotency_key])
\* puts a job with ONE positional argument into the job store; 202.
IdemEnqueue(r) ==
    /\ req[r].pc = "idem_enqueue"
    /\ Len(jobs) < MaxJobs
    /\ jobs' = Append(jobs, NewJob("process_items_idempotency",
                                   <<hashing(req[r].user_id)>>))
    /\ req' = [req EXCEPT ![r] =
                 Respond([@ EXCEPT !.ops = @ + 1], 202, "Your task is processing",
                         Len(jobs) + 1)]
    /\ UNCHANGED <<cache, redis, poll>>

\* Lines 83-84: apply_async raises (broker unreachable, or Celery's call-time
\* signature check rejecting the argument list): except Exception -> 500.
EnqueueRaises(r) ==
    /\ req[r].pc \in {"idem_enqueue", "lock_enqueue"}
    /\ req' = [req EXCEPT ![r] =
                 Respond([@ EXCEPT !.ops = @ + 1], 500, "error", 0)]
    /\ UNCHANGED <<cache, redis, jobs, poll>>

\* ---- views.py: start_task_lock ------------------------------------------
\* Lines 168-181: parse, validate user_id, derive lock_key, redis exists.
LockStart(r, user_id, items) ==
    /\ req[r].pc = "idle"
    /\ \A q \in Reqs : q < r => req[q].pc # "idle"
    /\ LET rq == [req[r] EXCEPT !.view = "lock", !.user_id = user_id,
                                !.items = items]
           key == lock_key(hashing(user_id))
       IN  req' = [req EXCEPT ![r] =
               IF user_id = 0
               THEN Respond(rq, 400, "No user provided", 0)
               ELSE IF redis_exists(redis, key)
               THEN Respond([rq EXCEPT !.ops = 1], 200, "Task is already in progress", 0)
               ELSE [rq EXCEPT !.pc = "lock_setnx", !.ops = 1]]
    /\ UNCHANGED <<cache, redis, jobs, poll>>

\* Line 183: redis_client.setnx(lock_key, 'locked'); no expiry is set. The view
\* discards what setnx returns; is_locked keeps it as a history field.
LockSetnx(r) ==
    /\ req[r].pc = "lock_setnx"
    /\ redis' = redis_setnx(redis, lock_key(hashing(req[r].user_id)), "locked",
                            <<"view", r>>)
    /\ req' = [req EXCEPT ![r].pc = "lock_enqueue", ![r].ops = @ + 1,
                          ![r].is_locked =
                              redis_setnx_ok(redis, lock_key(hashing(req[r].user_id)))]
    /\ UNCHANGED <<cache, jobs, poll>>

\* Lines 186-193: process_items_lock.apply_async(args=[hashing]); 202.
LockEnqueue(r) ==
    /\ req[r].pc = "lock_enqueue"
    /\ Len(jobs) < MaxJobs
    /\ jobs' = Append(jobs, NewJob("process_items_lock",
                                   <<hashing(req[r].user_id)>>))
    /\ req' = [req EXCEPT ![r] =
                 Respond([@ EXCEPT !.ops = @ + 1], 202, "Your task is processing",
                         Len(jobs) + 1)]
    /\ UNCHANGED <<cache, redis, poll>>

\* ---- a producer calling a task with its declared signature ----------------
\* tasks.py declares both tasks as (self, items, key); any producer of the
\* Celery app can send them with two arguments.
Produce(task, items, h) ==
    /\ Len(jobs) < MaxJobs
    /\ jobs' = Append(jobs, NewJob(task, <<items, h>>))
    /\ UNCHANGED <<cache, redis, req, poll>>

\* ---- tasks.py: what Celery does around a task function -------------------
\* The worker calls run(*args); a call with the wrong number of positional
\* arguments raises TypeError before the first statement of the function.
BindsOk(job) == Len(job.args) = Arity(job.task)

\* A failed task that is put back on the queue and run again
FailedRequeued(job, err) ==
    [job EXCEPT !.pc = "queued", !.state = "FAILURE", !.exc = TRUE,
                !.result = [message |-> err, total_items |-> -1, status |-> ""]]
\* An exception leaving the task function: state FAILURE, result = the error.
Failed(job, err) ==
    [job EXCEPT !.pc = "done", !.state = "FAILURE", !.exc = TRUE,
                !.result = [message |-> err, total_items |-> -1, status |-> ""]]
\* A dict returned by the task function: state SUCCESS, result = the dict.
Succeeded(job, res) ==
    [job EXCEPT !.pc = "done", !.state = "SUCCESS", !.result = res]

\* A progress update that reports i + 2
update_state_overshoot(job) ==
    [job EXCEPT !.state = "PROGRESS", !.current = @ + 2]
\* self.update_state(state='PROGRESS', meta={'current': i + 1, 'total': total_items})
update_state(job) ==
    [job EXCEPT !.state = "PROGRESS", !.current = @ + 1]

\* ---- tasks.py: process_items_idempotency(self, items, idempotency_key) ----
\* Line 12: total_items = len(items)
IdemRunnerStart(j) ==
    /\ jobs[j].task = "process_items_idempotency"
    /\ jobs[j].pc = "queued"
    /\ jobs' = [jobs EXCEPT ![j] =
                 IF ~BindsOk(@) THEN Failed(@, "TypeError")
                 ELSE [@ EXCEPT !.pc = "loop", !.total = Len(jobs[j].args[1])]]
    /\ UNCHANGED <<cache, redis, req, poll>>

\* Lines 13-15: one item processed, progress stored
IdemRunnerItem(j) ==
    /\ jobs[j].task = "process_items_idempotency"
    /\ jobs[j].pc = "loop"
    /\ jobs[j].current < jobs[j].total
    /\ jobs' = [jobs EXCEPT ![j] = update_state(@)]
    /\ UNCHANGED <<cache, redis, req, poll>>

\* The delete placed in a finally block: the record is cleared on failure too
IdemRunnerRaiseClears(j) ==
    /\ jobs[j].task = "process_items_idempotency"
    /\ jobs[j].pc = "loop"
    /\ jobs[j].current < jobs[j].total
    /\ cache' = cache_delete(cache, jobs[j].args[2])
    /\ jobs' = [jobs EXCEPT ![j].pc = "exit", ![j].exc = TRUE]
    /\ UNCHANGED <<redis, req, poll>>

\* Lines 13-15: an exception in the loop (update_state cannot reach the result
\* backend); nothing catches it, line 19 is skipped.
IdemRunnerRaise(j) ==
    /\ jobs[j].task = "process_items_idempotency"
    /\ jobs[j].pc = "loop"
    /\ jobs[j].current < jobs[j].total
    /\ jobs' = [jobs EXCEPT ![j].pc = "exit", ![j].exc = TRUE]
    /\ UNCHANGED <<cache, redis, req, poll>>

\* Line 19: cache.delete(idempotency_key), after the loop
IdemRunnerDelete(j) ==
    /\ jobs[j].task = "process_items_idempotency"
    /\ jobs[j].pc = "loop"
    /\ jobs[j].current = jobs[j].total
    /\ cache' = cache_delete(cache, jobs[j].args[2])
    /\ jobs' = [jobs EXCEPT ![j].pc = "exit"]
    /\ UNCHANGED <<redis, req, poll>>

\* ---- tasks.py: process_items_lock(self, items, hashing) -------------------
\* Lines 33-41: setnx; when the key exists the function returns the
\* 'ignored' dict (before the try block).
LockRunnerStart(j) ==
    /\ jobs[j].task = "process_items_lock"
    /\ jobs[j].pc = "queued"
    /\ IF ~BindsOk(jobs[j])
       THEN /\ jobs' = [jobs EXCEPT ![j] = Failed(@, "TypeError")]
            /\ UNCHANGED redis
       ELSE LET key == lock_key(jobs[j].args[2])
                is_locked == redis_setnx_ok(redis, key)
            IN  /\ redis' = redis_setnx(redis, key, "locked", <<"task", j>>)
                /\ jobs' = [jobs EXCEPT ![j] =
                     IF ~is_locked
                     THEN Succeeded(@, [message |-> "Task is already in progress",
                                        total_items |-> -1, status |-> "ignored"])
                     ELSE [@ EXCEPT !.pc = "try"]]
    /\ UNCHANGED <<cache, req, poll>>

\* Lines 45-48: redis_client.expire(lock_key, LOCK_TIMEOUT); total_items = len(items)
LockRunnerExpire(j) ==
    /\ jobs[j].task = "process_items_lock"
    /\ jobs[j].pc = "try"
    /\ redis' = redis_expire(redis, lock_key(jobs[j].args[2]), LOCK_TIMEOUT)
    /\ jobs' = [jobs EXCEPT ![j].pc = "loop", ![j].total = Len(jobs[j].args[1])]
    /\ UNCHANGED <<cache, req, poll>>

\* Lines 49-51: one item processed, progress stored
LockRunnerItem(j) ==
    /\ jobs[j].task = "process_items_lock"
    /\ jobs[j].pc = "loop"
    /\ jobs[j].current < jobs[j].total
    /\ jobs' = [jobs EXCEPT ![j] = update_state(@)]
    /\ UNCHANGED <<cache, redis, req, poll>>

\* A release placed after the loop instead of in finally: skipped on exception
ReleaseOnSuccessOnly(rd, key, exc) == IF exc THEN rd ELSE redis_delete(rd, key)
\* Lines 56-58: the finally block; it runs whether the try block returned
\* (exc = FALSE) or raised (exc = TRUE).
ReleaseLock(rd, key, exc) == redis_delete(rd, key)

\* Lines 54-58: the loop is over, return through finally
LockRunnerReturn(j) ==
    /\ jobs[j].task = "process_items_lock"
    /\ jobs[j].pc = "loop"
    /\ jobs[j].current = jobs[j].total
    /\ redis' = ReleaseLock(redis, lock_key(jobs[j].args[2]), FALSE)
    /\ jobs' = [jobs EXCEPT ![j].pc = "exit"]
    /\ UNCHANGED <<cache, req, poll>>

\* Lines 43-58: an exception inside the try block (expire or update_state
\* failing) leaves through finally
LockRunnerRaise(j) ==
    /\ jobs[j].task = "process_items_lock"
    /\ \/ jobs[j].pc = "try"
       \/ jobs[j].pc = "loop" /\ jobs[j].current < jobs[j].total
    /\ redis' = ReleaseLock(redis, lock_key(jobs[j].args[2]), TRUE)
    /\ jobs' = [jobs EXCEPT ![j].pc = "exit", ![j].exc = TRUE]
    /\ UNCHANGED <<cache, req, poll>>

\* The worker process dies inside the try block (kill -9, power loss): no
\* finally, no state update; the job is never heard of again.
WorkerCrash(j) ==
    /\ jobs[j].task = "process_items_lock"
    /\ jobs[j].pc \in {"try", "loop"}
    /\ jobs' = [jobs EXCEPT ![j].pc = "lost"]
    /\ UNCHANGED <<cache, redis, req, poll>>

\* The task function has returned or raised: Celery stores the outcome.
TaskDone(j) ==
    /\ jobs[j].pc = "exit"
    /\ jobs' = [jobs EXCEPT ![j] =
                 IF @.exc THEN Failed(@, "Exception")
                 ELSE Succeeded(@, [message |-> "Task completed",
                                    total_items |-> @.total, status |-> ""])]
    /\ UNCHANGED <<cache, redis, req, poll>>

\* ---- celery.result.AsyncResult -------------------------------------------
\* AsyncResult(task_id): the stored meta of the job; an id the job store does
\* not know reads as PENDING.
AsyncResult(js, task_id) ==
    IF task_id \in DOMAIN js THEN js[task_id] ELSE NewJob("", <<>>)
\* task.info in state PROGRESS: the meta dict of update_state
task_info(task) == [NoDetails EXCEPT !.current = task.current, !.total = task.total]
\* task.result: the returned dict (SUCCESS) or the exception (FAILURE)
task_result(task) ==
    [NoDetails EXCEPT !.message = task.result.message,
                      !.total_items = task.result.total_items,
                      !.status = task.result.status]
\* A status view that drops the stored result once it has read it (forget())
backend_forget(js, task_id) ==
    IF task_id \in DOMAIN js /\ js[task_id].pc = "done"
    THEN [js EXCEPT ![task_id].state = "PENDING", ![task_id].result = NoResult]
    ELSE js
\* The job store after the reads of a status request (.state, .info, .result
\* are reads of the result backend): as it was.
backend_after_read(js, task_id) == js

Answer(view, task_id, h, task, lock, http, status, details) ==
    [pc |-> "done", view |-> view, task_id |-> task_id, hashing |-> h,
     state |-> task.state, lock |-> lock, http |-> http, status |-> status,
     details |-> details]

\* ---- views.py: get_task_status_lock --------------------------------------
\* Lines 264-276: the lock key exists
status_lock_held(task) ==
    IF task.state = "PROGRESS"
    THEN [http |-> 200, status |-> "in_progress", details |-> task_info(task)]
    ELSE IF task.state = "SUCCESS"
    THEN [http |-> 200, status |-> "completed", details |-> task_result(task)]
    ELSE IF task.state = "FAILURE"
    THEN [http |-> 500, status |-> "failed", details |-> task_result(task)]
    ELSE [http |-> 200, status |-> "unknown",
          details |-> [NoDetails EXCEPT !.message = task.state]]

\* A translator that takes the absence of the lock for success
status_lock_absent_means_done(lock, task) ==
    IF ~lock
    THEN [http |-> 200, status |-> "completed", details |-> task_result(task)]
    ELSE [http |-> 404, status |-> "not_found", details |-> NoDetails]
\* Lines 279-283: the lock key did not exist at line 261; `lock` is the second
\* exists read
status_lock_absent(lock, task) ==
    IF ~lock /\ task.state = "SUCCESS"
    THEN [http |-> 200, status |-> "completed", details |-> task_result(task)]
    ELSE [http |-> 404, status |-> "not_found", details |-> NoDetails]

\* Lines 255-276: first exists read; with the lock present the answer is given
PollLockStart(task_id, h) ==
    /\ poll.pc \in {"idle", "done"}
    /\ LET task == AsyncResult(jobs, task_id)
           a == status_lock_held(task)
       IN  poll' = IF redis_exists(redis, lock_key(h))
                   THEN Answer("status_lock", task_id, h, task, TRUE,
                               a.http, a.status, a.details)
                   ELSE [IdlePoll EXCEPT !.pc = "absent", !.view = "status_lock",
                                         !.task_id = task_id, !.hashing = h]
    /\ jobs' = backend_after_read(jobs, task_id)
    /\ UNCHANGED <<cache, redis, req>>

\* Lines 279-283: second exists read and the answer without lock
PollLockAbsent ==
    /\ poll.pc = "absent"
    /\ LET task == AsyncResult(jobs, poll.task_id)
           lock == redis_exists(redis, lock_key(poll.hashing))
           a == status_lock_absent(lock, task)
       IN  poll' = Answer("status_lock", poll.task_id, poll.hashing, task, lock,
                          a.http, a.status, a.details)
    /\ jobs' = backend_after_read(jobs, poll.task_id)
    /\ UNCHANGED <<cache, redis, req>>

\* ---- views.py: get_task_status_idempotency --------------------------------
\* Lines 113-139
status_idempotency(task) ==
    IF task.state = "PROGRESS"
    THEN [http |-> 200, status |-> task.state, details |-> task_info(task)]
    ELSE IF task.state = "SUCCESS"
    THEN [http |-> 200, status |-> task.state, details |-> task_result(task)]
    ELSE IF task.state = "IGNORED"
    THEN [http |-> 200, status |-> task.state,
          details |-> [NoDetails EXCEPT !.message = "Task ignored"]]
    ELSE [http |-> 200, status |-> task.state, details |-> NoDetails]

PollIdempotency(task_id) ==
    /\ poll.pc \in {"idle", "done"}
    /\ LET task == AsyncResult(jobs, task_id)
           a == status_idempotency(task)
       IN  poll' = Answer("status_idempotency", task_id, <<>>, task, FALSE,
                          a.http, a.status, a.details)
    /\ jobs' = backend_after_read(jobs, task_id)
    /\ UNCHANGED <<cache, redis, req>>

\* ---- consumers.py: TaskProgressConsumer.receive ----------------------------
\* Lines 11-25: a message is sent for PROGRESS and SUCCESS only (http 0 and
\* status "": nothing sent)
ws_message(task) ==
    IF task.state = "PROGRESS"
    THEN [http |-> 0, status |-> task.state, details |-> task_info(task)]
    ELSE IF task.state = "SUCCESS"
    THEN [http |-> 0, status |-> "SUCCESS",
          details |-> [NoDetails EXCEPT !.message = task.result.message]]
    ELSE [http |-> 0, status |-> "", details |-> NoDetails]

WsReceive(task_id) ==
    /\ poll.pc \in {"idle", "done"}
    /\ LET task == AsyncResult(jobs, task_id)
           a == ws_message(task)
       IN  poll' = Answer("ws", task_id, <<>>, task, FALSE,
                          a.http, a.status, a.details)
    /\ jobs' = backend_after_read(jobs, task_id)
    /\ UNCHANGED <<cache, redis, req>>

\* Task ids a client may ask for: the jobs there can be, and one unknown id
TaskIds == 0..MaxJobs

\* Time passes: TTLs of both stores count down.
Tick ==
    /\ \/ DOMAIN cache # {}
       \/ \E k \in DOMAIN redis : redis[k].ttl # NoExpiry
    /\ cache' = Age(cache)
    /\ redis' = Age(redis)
    /\ UNCHANGED <<req, jobs, poll>>

\* ---- next-state relations ------------------------------------------------
\* The idempotency path (Django cache) and the lock path (Redis) share no key;
\* each is also checked on its own.
NextIdem ==
    \/ \E r \in Reqs, u \in UserIds, it \in ItemLists : IdemStart(r, u, it)
    \/ \E r \in Reqs : IdemSet(r)
    \/ \E r \in Reqs : IdemEnqueue(r)
    \/ \E r \in Reqs : EnqueueRaises(r)
    \/ \E it \in ItemLists, h \in Hashings : Produce("process_items_idempotency", it, h)
    \/ \E j \in DOMAIN jobs : IdemRunnerStart(j)
    \/ \E j \in DOMAIN jobs : IdemRunnerItem(j)
    \/ \E j \in DOMAIN jobs : IdemRunnerRaise(j)
    \/ \E j \in DOMAIN jobs : IdemRunnerDelete(j)
    \/ \E j \in DOMAIN jobs : TaskDone(j)
    \/ Tick

NextLock ==
    \/ \E r \in Reqs, u \in UserIds, it \in ItemLists : LockStart(r, u, it)
    \/ \E r \in Reqs : LockSetnx(r)
    \/ \E r \in Reqs : LockEnqueue(r)
    \/ \E r \in Reqs : EnqueueRaises(r)
    \/ \E it \in ItemLists, h \in Hashings : Produce("process_items_lock", it, h)
    \/ \E j \in DOMAIN jobs : LockRunnerStart(j)
    \/ \E j \in DOMAIN jobs : LockRunnerExpire(j)
    \/ \E j \in DOMAIN jobs : LockRunnerItem(j)
    \/ \E j \in DOMAIN jobs : LockRunnerReturn(j)
    \/ \E j \in DOMAIN jobs : LockRunnerRaise(j)
    \/ \E j \in DOMAIN jobs : WorkerCrash(j)
    \/ \E j \in DOMAIN jobs : TaskDone(j)
    \/ Tick

\* The status read paths, beside the workers whose jobs and locks they report
\* on (a second job makes a lock held while the first job is already FAILURE)
NextStatus ==
    \/ \E it \in ItemLists, h \in Hashings : Produce("process_items_lock", it, h)
    \/ \E j \in DOMAIN jobs : LockRunnerStart(j)
    \/ \E j \in DOMAIN jobs : LockRunnerExpire(j)
    \/ \E j \in DOMAIN jobs : LockRunnerItem(j)
    \/ \E j \in DOMAIN jobs : LockRunnerReturn(j)
    \/ \E j \in DOMAIN jobs : LockRunnerRaise(j)
    \/ \E j \in DOMAIN jobs : WorkerCrash(j)
    \/ \E j \in DOMAIN jobs : TaskDone(j)
    \/ Tick
    \/ \E t \in TaskIds, h \in Hashings : PollLockStart(t, h)
    \/ PollLockAbsent
    \/ \E t \in TaskIds : PollIdempotency(t)
    \/ \E t \in TaskIds : WsReceive(t)

Next == NextIdem \/ NextLock \/ NextStatus

SpecIdem == Init /\ [][NextIdem]_vars
SpecLock == Init /\ [][NextLock]_vars
SpecStatus == Init /\ [][NextStatus]_vars
Spec == Init /\ [][Next]_vars
\* ---- vocabulary of the properties ---------------------------------------
IdemReq(r) == req[r].view = "idempotency" /\ req[r].user_id # 0
LockReq(r) == req[r].view = "lock" /\ req[r].user_id # 0
Admitted(r) == req[r].pc = "done" /\ req[r].status = 202
Terminal(j) == jobs[j].pc = "done"
\* The lock job j entered the function body and acquired the lock itself
InBody(j) == jobs[j].task = "process_items_lock" /\ BindsOk(jobs[j])
\* Something is still under way for resource h: a submission between its
\* exists check and its response, or a job that has not finished
Busy(h) ==
    \/ \E r \in Reqs : LockReq(r) /\ hashing(req[r].user_id) = h
                       /\ req[r].pc \in {"lock_setnx", "lock_enqueue"}
    \/ \E j \in DOMAIN jobs : jobs[j].args[Len(jobs[j].args)] = h /\ ~Terminal(j)

\* C1: of the submissions that wrote the idempotency record of one key during
\* one lifetime of that record (so within its TTL), at most one is admitted
\* (202); two concurrent submissions of the same identity are never both admitted.
C1_NeverBothAdmitted ==
    \A k \in DOMAIN cache :
        Cardinality({r \in cache[k].writers : Admitted(r)}) <= 1

\* C2: a submission to start_task_lock is accepted (202, job enqueued) only if
\* its own setnx created the lock; a submission whose setnx found the lock of a
\* competitor is not accepted.
C2_AcceptedOnlyWithLock ==
    \A r \in Reqs : (LockReq(r) /\ Admitted(r)) => req[r].is_locked

\* C3: once the job of an accepted start_task_lock submission is terminal, the
\* lock that submission set is no longer in the store.
C3_ReleasedWhenTerminal ==
    \A r \in Reqs :
        (LockReq(r) /\ Admitted(r) /\ Terminal(req[r].task_id)) =>
            LET key == lock_key(hashing(req[r].user_id))
            IN  ~(key \in DOMAIN redis /\ redis[key].by = <<"view", r>>)

\* C4: a resource does not stay locked forever: once the job of an accepted
\* submission for R has finished and nothing else is under way, the lock of R
\* is absent or carries an expiry, so that a later submission is accepted again.
C4_NotLockedForever ==
    \A r \in Reqs :
        LET h == hashing(req[r].user_id)
        IN  (/\ LockReq(r) /\ Admitted(r) /\ Terminal(req[r].task_id)
             /\ ~Busy(h)
             /\ lock_key(h) \in DOMAIN redis) =>
                redis[lock_key(h)].ttl # NoExpiry

\* C5: every lock key in the store carries an expiry, whoever created it.
C5_EveryLockHasTTL ==
    \A k \in DOMAIN redis : redis[k].ttl # NoExpiry

\* C6: the job of an accepted submission of n items ends in SUCCESS with
\* total_items = n.
C6_AcceptedJobDoesWork ==
    \A r \in Reqs :
        (Admitted(r) /\ Terminal(req[r].task_id)) =>
            /\ jobs[req[r].task_id].state = "SUCCESS"
            /\ jobs[req[r].task_id].result.total_items = Len(req[r].items)

C8_DuplicateNoSideEffect ==
    [][\A r \in Reqs :
         (/\ req[r].pc = "idle" /\ req'[r].pc # "idle"
          /\ req'[r].view = "idempotency" /\ req'[r].user_id # 0
          /\ hashing(req'[r].user_id) \in DOMAIN cache) =>
            /\ req'[r].pc = "done"
            /\ req'[r].status = 200
            /\ req'[r].message = "Your task already processed"
            /\ req'[r].task_id = 0
            /\ jobs' = jobs
            /\ cache' = cache]_vars

\* C8 witness: a duplicate answer was given while the record, written some
\* time ago, is still there with its TTL partly used up.
C8_Witness ==
    \E r \in Reqs :
        /\ IdemReq(r) /\ req[r].pc = "done" /\ req[r].status = 200
        /\ hashing(req[r].user_id) \in DOMAIN cache
        /\ cache[hashing(req[r].user_id)].ttl < IDEMPOTENCY_TIMEOUT
        /\ r \notin cache[hashing(req[r].user_id)].writers

\* C9: an idempotency record leaves the cache only by TTL expiry.
C9_RemovedOnlyByExpiry ==
    [][\A k \in DOMAIN cache : k \notin DOMAIN cache' => cache' = Age(cache)]_vars

\* C10: a submission without user or with an empty items list is answered 400
\* without any store or broker call and without a job.
C10_MalformedRejected ==
    \A r \in Reqs :
        (req[r].pc # "idle" /\ (req[r].user_id = 0 \/ req[r].items = <<>>)) =>
            /\ req[r].status = 400
            /\ req[r].ops = 0
            /\ req[r].task_id = 0

\* C11: a submission answered 500 because enqueueing failed leaves nothing
\* behind: no idempotency record it wrote and no lock it created is in the
\* store, so that a retry is admitted.
C11_FailedEnqueueLeavesNothing ==
    \A r \in Reqs :
        (req[r].pc = "done" /\ req[r].status = 500) =>
            LET h == hashing(req[r].user_id)
            IN  /\ ~(h \in DOMAIN cache /\ r \in cache[h].writers)
                /\ ~(lock_key(h) \in DOMAIN redis
                     /\ redis[lock_key(h)].by = <<"view", r>>)

\* C16: a process_items_lock job whose setnx failed (it returned the 'ignored'
\* dict) is in the terminal state IGNORED, not SUCCESS.
C16_IgnoredIsNotSuccess ==
    \A j \in DOMAIN jobs :
        (Terminal(j) /\ jobs[j].result.status = "ignored") =>
            jobs[j].state = "IGNORED"

\* C18: a job that has items to process leaves PENDING by a PROGRESS update
\* with current = 0, emitted before its first item is finished; it never goes
\* from PENDING straight to a finished item or to SUCCESS.
C18_ProgressBeforeFirstItem ==
    [][\A j \in DOMAIN jobs :
         (/\ BindsOk(jobs[j]) /\ Len(jobs[j].args[1]) > 0
          /\ jobs[j].state = "PENDING" /\ jobs'[j].state \in {"PROGRESS", "SUCCESS"}) =>
            (jobs'[j].state = "PROGRESS" /\ jobs'[j].current = 0)]_vars

\* C19: a submission is answered as duplicate only if another submission with
\* the same user AND the same items passed the guard before it.
C19_DuplicateMeansSameUserAndItems ==
    \A r \in Reqs :
        (IdemReq(r) /\ req[r].pc = "done" /\ req[r].status = 200) =>
            \E q \in Reqs \ {r} :
                /\ IdemReq(q)
                /\ req[q].pc \in {"idem_enqueue", "done"}
                /\ req[q].ops >= 2
                /\ req[q].user_id = req[r].user_id
                /\ req[q].items = req[r].items

\* C20: for every resource at most one process_items_lock runner is between
\* its successful setnx and its release.
InProtectedSection(j) == InBody(j) /\ jobs[j].pc \in {"try", "loop"}
C20_OneRunnerInside ==
    \A h \in Hashings :
        Cardinality({j \in DOMAIN jobs :
                        InProtectedSection(j) /\ jobs[j].args[2] = h}) <= 1

\* C14: while a job is not terminal its progress.current never decreases; in
\* every PROGRESS state current <= total, and total is the number of items the
\* job was given and does not change.
C14_ProgressMonotone ==
    [][\A j \in DOMAIN jobs :
         /\ jobs'[j].current >= jobs[j].current
         /\ jobs'[j].state = "PROGRESS" =>
                /\ jobs'[j].current <= jobs'[j].total
                /\ jobs'[j].total = Len(jobs'[j].args[1])
         /\ jobs[j].state = "PROGRESS" => jobs'[j].total = jobs[j].total]_vars

\* C14 witness: a job in PROGRESS that has reported every one of its items,
\* more than one.
C14_Witness ==
    \E j \in DOMAIN jobs :
        /\ jobs[j].state = "PROGRESS" /\ jobs[j].pc = "loop"
        /\ jobs[j].current >= 2 /\ jobs[j].current = jobs[j].total

\* C17: job states only move forward along PENDING -> PROGRESS -> terminal:
\* PROGRESS is never followed by PENDING, and once a job is SUCCESS, FAILURE or
\* IGNORED nothing of it (state, progress, result) changes again.
TerminalStates == {"SUCCESS", "FAILURE", "IGNORED"}
C17_StateMachine ==
    [][\A j \in DOMAIN jobs :
         /\ jobs[j].state \in {"PENDING", "PROGRESS"} \cup TerminalStates
         /\ jobs[j].state \in TerminalStates => jobs'[j] = jobs[j]
         /\ jobs[j].state = "PROGRESS" =>
                jobs'[j].state \in {"PROGRESS"} \cup TerminalStates]_vars

\* C17 witness: a job that went through PROGRESS and an exception is terminal
\* in FAILURE, with the progress it had reached.
C17_Witness ==
    \E j \in DOMAIN jobs :
        /\ jobs[j].pc = "done" /\ jobs[j].state = "FAILURE"
        /\ jobs[j].current > 0

\* C12: get_task_status_lock answers 'failed' (500) whenever the job state it
\* read is FAILURE, with the lock held or absent.
C12_FailureReportedFailed ==
    (poll.pc = "done" /\ poll.view = "status_lock" /\ poll.state = "FAILURE") =>
        (poll.status = "failed" /\ poll.http = 500)

\* C13: when get_task_status_lock found the lock absent, it answers
\* 'completed' (200) with the job's result if the job state is SUCCESS, and
\* 'not_found' (404) in every other job state.
C13_AbsentLockAnswer ==
    (poll.pc = "done" /\ poll.view = "status_lock" /\ ~poll.lock) =>
        IF poll.state = "SUCCESS"
        THEN /\ poll.status = "completed" /\ poll.http = 200
             /\ poll.details = task_result(jobs[poll.task_id])
        ELSE /\ poll.status = "not_found" /\ poll.http = 404
             /\ poll.details = NoDetails

\* C13 witness: with the lock absent a finished job of two items was reported
\* 'completed' with total_items = 2.
C13_Witness ==
    /\ poll.pc = "done" /\ poll.view = "status_lock" /\ ~poll.lock
    /\ poll.state = "SUCCESS" /\ poll.status = "completed"
    /\ poll.details.total_items = 2
    /\ lock_key(poll.hashing) \notin DOMAIN redis

\* C15: a step of a status read path (get_task_status_idempotency,
\* get_task_status_lock, TaskProgressConsumer.receive) changes neither the job
\* store nor the idempotency records nor the lock table.
C15_StatusReadsOnly ==
    [][poll' # poll =>
         (jobs' = jobs /\ cache' = cache /\ redis' = redis /\ req' = req)]_vars

\* C15 witness: a job was read in PROGRESS over the WebSocket, kept running and
\* has finished since.
C15_Witness ==
    /\ poll.pc = "done" /\ poll.view = "ws" /\ poll.state = "PROGRESS"
    /\ poll.task_id \in DOMAIN jobs
    /\ jobs[poll.task_id].state = "SUCCESS"
    /\ jobs[poll.task_id].current > poll.details.current

\* C21: an idempotency record leaves the cache only when its TTL runs out or
\* when a run of process_items_idempotency for its key gets past its loop
\* without exception (line 19); a run that raises leaves the cache as it is; a
\* submission that finds the record is answered as duplicate, one that finds
\* none (after expiry) goes on to be admitted.
C21_ClearedOnlyBySuccess ==
    [][/\ \A k \in DOMAIN cache :
            k \notin DOMAIN cache' =>
                \/ Expired(cache[k]) /\ cache' = Age(cache)
                \/ \E j \in DOMAIN jobs :
                      /\ jobs[j].task = "process_items_idempotency"
                      /\ BindsOk(jobs[j]) /\ jobs[j].args[2] = k
                      /\ jobs[j].pc = "loop" /\ jobs[j].current = jobs[j].total
                      /\ jobs'[j].pc = "exit" /\ ~jobs'[j].exc
       /\ \A j \in DOMAIN jobs :
            (jobs[j].task = "process_items_idempotency"
             /\ ~jobs[j].exc /\ jobs'[j].exc) => cache' = cache
       /\ \A r \in Reqs :
            (/\ req[r].pc = "idle" /\ req'[r].pc # "idle"
             /\ req'[r].view = "idempotency" /\ req'[r].user_id # 0) =>
                IF hashing(req'[r].user_id) \in DOMAIN cache
                THEN req'[r].pc = "done" /\ req'[r].status = 200
                ELSE req'[r].pc = "idem_set"]_vars

\* C21 witness: the job of an admitted submission has failed, the record that
\* submission wrote is still there, part of its TTL gone, and a resubmission
\* of the same user was answered as duplicate.
C21_Witness ==
    \E r, q \in Reqs :
        /\ r # q /\ IdemReq(r) /\ Admitted(r)
        /\ jobs[req[r].task_id].state = "FAILURE"
        /\ hashing(req[r].user_id) \in DOMAIN cache
        /\ cache[hashing(req[r].user_id)].writers = {r}
        /\ cache[hashing(req[r].user_id)].ttl < IDEMPOTENCY_TIMEOUT
        /\ IdemReq(q) /\ req[q].user_id = req[r].user_id
        /\ req[q].pc = "done" /\ req[q].status = 200
====
